---- MODULE Spec2Model ----
(***************************************************************************)
(* A model of drift-detector.py: the extraction of change records from a   *)
(* terraform plan document (extract_plan_changes), their classification    *)
(* (filter_changes), the extraction of resources from a state document     *)
(* (extract_state_resources) and the reporting done by main.               *)
(*                                                                         *)
(* Four specifications share the variables:                                *)
(*   SpecPlan   extract_plan_changes followed by filter_changes            *)
(*   SpecState  extract_state_resources                                    *)
(*   SpecMain   one run of main under every combination of options         *)
(*   Spec       main run twice on the same plan with two state documents   *)
(***************************************************************************)
EXTENDS Naturals, Sequences, FiniteSets, TLC

VARIABLES
    pc,          \* the position of the program
    failure,     \* the failure the program ended in, "none" when it has not failed
    plan,        \* the parsed plan document
    idx,         \* the position of the loop over the document's descriptors
    changes,     \* extract_plan_changes: the list `changes`
    creates,     \* filter_changes: the four lists
    updates,
    deletes,
    no_ops,
    snapshot,    \* the parsed state document handed to extract_state_resources
    resources,   \* extract_state_resources: the dict `resources`
    argv,        \* main: the options on the command line
    state,       \* main: the loaded state document
    summary,     \* main: the counts print_summary printed
    output,      \* main: what the print_* functions printed, in order
    run,         \* which of the two runs of main is executing
    first        \* what the first run computed

vars == <<pc, failure, plan, idx, changes, creates, updates, deletes, no_ops,
          snapshot, resources, argv, state, summary, output, run, first>>

(***************************************************************************)
(* Bounds of the model.                                                    *)
(***************************************************************************)
MaxChanges == 2      \* descriptors in a plan document
MaxResources == 2    \* resource descriptors in a state document
MaxInstances == 2    \* instances of one resource descriptor

SeqsUpTo(S, n) == UNION {[1..m -> S] : m \in 0..n}

(***************************************************************************)
(* JSON values.  A value is None or a dict; a dict is the set of its       *)
(* <<key, scalar>> items.  Absent marks a key that the enclosing object    *)
(* does not have, which dict.get replaces by its default.                  *)
(***************************************************************************)
NoneV == [k |-> "none", items |-> {}]
Absent == [k |-> "absent", items |-> {}]
Dict(items) == [k |-> "dict", items |-> items]
EmptyDict == Dict({})
SG1 == Dict({<<"id", "sg-1">>})
SG2 == Dict({<<"id", "sg-2">>})

Keys(d) == {it[1] : it \in d.items}
Item(d, key) == (CHOOSE it \in d.items : it[1] = key)[2]

\* dict.get(key, default) on the value found under the key
Get(v, default) == IF v = Absent THEN default ELSE v

\* the truth value Python gives a JSON value: None and {} are false
Truthy(v) == v.k = "dict" /\ v.items # {}

(***************************************************************************)
(* Plan documents: {"resource_changes": [{"address", "change": {"before",  *)
(* "after"}}]}.  NoKey marks a descriptor without the "address" key.       *)
(***************************************************************************)
NoKey == "<no key>"
PlanAddresses == {"aws_instance.web", "unknown"}
BeforeValues == {Absent, NoneV, SG1}
AfterValues == {Absent, NoneV, SG1, SG2}
ChangeDescriptors ==
    [address : PlanAddresses \cup {NoKey}, before : BeforeValues, after : AfterValues]
PlanDocs ==
    {[has_resource_changes |-> FALSE, resource_changes |-> <<>>]}
    \cup {[has_resource_changes |-> TRUE, resource_changes |-> s] :
            s \in SeqsUpTo(ChangeDescriptors, MaxChanges)}

\* the order of Python's str comparison on the addresses of the model
AddressOrder == <<"aws_instance.web", "unknown">>
AddrRank(a) == CHOOSE i \in 1..Len(AddressOrder) : AddressOrder[i] = a
AddrLeq(a, b) == AddrRank(a) <= AddrRank(b)

(***************************************************************************)
(* extract_plan_changes                                                    *)
(***************************************************************************)
ActionIgnoringEquality(before, after) ==
    IF before = NoneV /\ after # NoneV THEN "create"
    ELSE IF before # NoneV /\ after = NoneV THEN "delete"
    ELSE IF before # NoneV /\ after # NoneV THEN "update"
    ELSE "no-op"

DetermineAction(before, after) ==
    IF before = NoneV /\ after # NoneV THEN "create"
    ELSE IF before # NoneV /\ after = NoneV THEN "delete"
    ELSE IF before # NoneV /\ after # NoneV
         THEN IF before = after THEN "no-op" ELSE "update"
    ELSE "no-op"

\* DeepDiff(before, after, ignore_order=False, verbose_level=2).to_dict(),
\* as the set of its entries
DeepDiff(old, new) ==
    IF old.k # new.k
    THEN {[kind |-> "type_changes", path |-> "root", old |-> old.k, new |-> new.k]}
    ELSE {[kind |-> "dictionary_item_added", path |-> key,
           old |-> "", new |-> Item(new, key)] : key \in Keys(new) \ Keys(old)}
         \cup
         {[kind |-> "dictionary_item_removed", path |-> key,
           old |-> Item(old, key), new |-> ""] : key \in Keys(old) \ Keys(new)}
         \cup
         {[kind |-> "values_changed", path |-> key,
           old |-> Item(old, key), new |-> Item(new, key)] :
            key \in {c \in Keys(old) \cap Keys(new) : Item(old, c) # Item(new, c)}}

DiffOnlyUpdates(before, after) ==
    IF DetermineAction(before, after) = "update" THEN DeepDiff(before, after) ELSE {}

DetailedChanges(before, after) ==
    IF before # after THEN DeepDiff(before, after) ELSE {}

\* the body of the loop: the ResourceChange built from one descriptor
MakeResourceChange(rc) ==
    LET address == IF rc.address = NoKey THEN "unknown" ELSE rc.address
        before == Get(rc.before, EmptyDict)
        after == Get(rc.after, EmptyDict)
    IN  [address |-> address,
         action |-> DetermineAction(before, after),
         before |-> IF Truthy(before) THEN before ELSE EmptyDict,
         after |-> IF Truthy(after) THEN after ELSE EmptyDict,
         detailed_changes |-> DetailedChanges(before, after)]

AppendUnlessPresent(list, resource) ==
    IF \E k \in 1..Len(list) : list[k].address = resource.address
    THEN list
    ELSE Append(list, resource)

\* changes.append(resource)
AppendChange(list, resource) == Append(list, resource)

RECURSIVE ExtractFrom(_, _)
ExtractFrom(descriptors, acc) ==
    IF descriptors = <<>> THEN acc
    ELSE ExtractFrom(Tail(descriptors),
                     AppendChange(acc, MakeResourceChange(Head(descriptors))))

\* the whole function
ExtractPlanChanges(p) ==
    IF p.has_resource_changes THEN ExtractFrom(p.resource_changes, <<>>) ELSE <<>>

(***************************************************************************)
(* filter_changes                                                          *)
(***************************************************************************)
NoLists == [creates |-> <<>>, updates |-> <<>>, deletes |-> <<>>, no_ops |-> <<>>]

RECURSIVE FilterPrepending(_, _)
FilterPrepending(list, acc) ==
    IF list = <<>> THEN acc
    ELSE LET change == Head(list)
             next == IF change.action = "create"
                       THEN [acc EXCEPT !.creates = <<change>> \o @]
                     ELSE IF change.action = "update"
                       THEN [acc EXCEPT !.updates = <<change>> \o @]
                     ELSE IF change.action = "delete"
                       THEN [acc EXCEPT !.deletes = <<change>> \o @]
                     ELSE [acc EXCEPT !.no_ops = <<change>> \o @]
         IN  FilterPrepending(Tail(list), next)

RECURSIVE FilterLoop(_, _)
FilterLoop(list, acc) ==
    IF list = <<>> THEN acc
    ELSE LET change == Head(list)
             next == IF change.action = "create"
                       THEN [acc EXCEPT !.creates = Append(@, change)]
                     ELSE IF change.action = "update"
                       THEN [acc EXCEPT !.updates = Append(@, change)]
                     ELSE IF change.action = "delete"
                       THEN [acc EXCEPT !.deletes = Append(@, change)]
                     ELSE [acc EXCEPT !.no_ops = Append(@, change)]
         IN  FilterLoop(Tail(list), next)

ReversedLists(list) == FilterPrepending(list, NoLists)

FilterChanges(list) == FilterLoop(list, NoLists)

\* the values of the variables a specification does not use, or has not set yet
NoSummary == [printed |-> FALSE, no_ops |-> 0, creates |-> 0, updates |-> 0,
              deletes |-> 0, total |-> 0]
NoSnapshot == [has_resources |-> FALSE, resources |-> <<>>]
NoPlan == [has_resource_changes |-> FALSE, resource_changes |-> <<>>]
NoResources == [a \in {} |-> 0]
NoFirst == [plan |-> NoPlan, state |-> NoSnapshot, changes |-> <<>>, lists |-> NoLists,
            summary |-> NoSummary]

(***************************************************************************)
(* SpecPlan: extract_plan_changes descriptor by descriptor, then           *)
(* filter_changes.                                                         *)
(***************************************************************************)
InitPlan ==
    /\ plan \in PlanDocs
    /\ pc = "extract_plan_changes"
    /\ failure = "none"
    /\ idx = 1
    /\ changes = <<>>
    /\ creates = <<>> /\ updates = <<>> /\ deletes = <<>> /\ no_ops = <<>>
    /\ snapshot = NoSnapshot
    /\ resources = NoResources
    /\ argv = {}
    /\ state = NoSnapshot
    /\ summary = NoSummary
    /\ output = <<>>
    /\ run = 1
    /\ first = NoFirst

ExtractPlanStep ==
    /\ pc = "extract_plan_changes"
    /\ plan.has_resource_changes
    /\ idx <= Len(plan.resource_changes)
    /\ changes' = AppendChange(changes, MakeResourceChange(plan.resource_changes[idx]))
    /\ idx' = idx + 1
    /\ UNCHANGED <<pc, failure, plan, creates, updates, deletes, no_ops, snapshot,
                   resources, argv, state, summary, output, run, first>>

ExtractPlanReturn ==
    /\ pc = "extract_plan_changes"
    /\ \/ ~plan.has_resource_changes
       \/ idx > Len(plan.resource_changes)
    /\ pc' = "filter_changes"
    /\ UNCHANGED <<failure, plan, idx, changes, creates, updates, deletes, no_ops,
                   snapshot, resources, argv, state, summary, output, run, first>>

FilterChangesCall ==
    /\ pc = "filter_changes"
    /\ LET lists == FilterChanges(changes)
       IN  /\ creates' = lists.creates
           /\ updates' = lists.updates
           /\ deletes' = lists.deletes
           /\ no_ops' = lists.no_ops
    /\ pc' = "returned"
    /\ UNCHANGED <<failure, plan, idx, changes, snapshot, resources, argv, state,
                   summary, output, run, first>>

NextPlan == ExtractPlanStep \/ ExtractPlanReturn \/ FilterChangesCall

SpecPlan == InitPlan /\ [][NextPlan]_vars

(***************************************************************************)
(* Properties of extract_plan_changes and filter_changes (SpecPlan).       *)
(***************************************************************************)
Extracted == pc \in {"filter_changes", "returned"}
IsDict(v) == v.k = "dict"
ResolvedAddress(rc) == IF rc.address = NoKey THEN "unknown" ELSE rc.address
RecordsAt(a) == {k \in 1..Len(changes) : changes[k].address = a}
\* every descriptor of the plan carries its address, before and after keys
WellFormedPlan ==
    \A k \in 1..Len(plan.resource_changes) :
        /\ plan.resource_changes[k].address # NoKey
        /\ plan.resource_changes[k].before # Absent
        /\ plan.resource_changes[k].after # Absent
SortedByAddress(list) ==
    \A i, j \in 1..Len(list) : i < j => AddrLeq(list[i].address, list[j].address)

\* C1: the record built from a descriptor has action create when before is
\* null and after is a value, delete when before is a value and after is
\* null, no-op when both are values and equal, update when both are values
\* and differ.
C1_ActionFromBeforeAfter ==
    \A k \in 1..Len(changes) :
        LET rc == plan.resource_changes[k]
            action == changes[k].action
        IN  /\ (rc.before = NoneV /\ IsDict(rc.after)) => action = "create"
            /\ (IsDict(rc.before) /\ rc.after = NoneV) => action = "delete"
            /\ (IsDict(rc.before) /\ IsDict(rc.after) /\ rc.before = rc.after)
                   => action = "no-op"
            /\ (IsDict(rc.before) /\ IsDict(rc.after) /\ rc.before # rc.after)
                   => action = "update"

\* Both descriptors of a plan have been turned into records: one of equal
\* values (no-op) and one of a null before (create).
C1_Witness ==
    /\ Extracted
    /\ Len(changes) = 2
    /\ \E k \in 1..2 :
          /\ plan.resource_changes[k].before = SG1
          /\ plan.resource_changes[k].after = SG1
          /\ changes[k].action = "no-op"
    /\ \E k \in 1..2 :
          /\ plan.resource_changes[k].before = NoneV
          /\ plan.resource_changes[k].after = SG2
          /\ changes[k].action = "create"

\* C2 as stated: a record's detailed_changes is non-empty exactly when its
\* action is update (checked on the plans whose descriptors carry all
\* their keys).
C2_DiffsOnlyOnUpdate ==
    WellFormedPlan => \A k \in 1..Len(changes) :
        (changes[k].detailed_changes # {}) <=> (changes[k].action = "update")

\* C2 as amended: a record's detailed_changes is non-empty exactly when its
\* action is create, update or delete; only no-op records carry no diffs.
C2_DiffsUnlessNoOp ==
    \A k \in 1..Len(changes) :
        (changes[k].detailed_changes # {})
            <=> (changes[k].action \in {"create", "update", "delete"})

\* A create record and a delete record, each carrying a type change.
C2_Witness ==
    /\ Extracted
    /\ \E k \in 1..Len(changes) :
          /\ changes[k].action = "create"
          /\ \E d \in changes[k].detailed_changes : d.kind = "type_changes"
    /\ \E k \in 1..Len(changes) :
          /\ changes[k].action = "delete"
          /\ changes[k].detailed_changes # {}

C8_MalformedPlanFails ==
    (Extracted /\ ~plan.has_resource_changes) => failure = "InputMalformed"

(***************************************************************************)
(* State documents: {"resources": [{"type", "name", "instances":           *)
(* [{"attributes"}]}]}.  An instance is modelled by the value under its    *)
(* "attributes" key; the instances of the model carry no "private" key.    *)
(***************************************************************************)
ResourceIdentities ==
    {<<"aws_instance", "web">>, <<"aws_instance", "unknown">>,
     <<"aws_instance", NoKey>>, <<NoKey, NoKey>>}
InstanceValues == {Absent, SG1}
ResourceDescriptors ==
    {[type |-> id[1], name |-> id[2], has_instances |-> TRUE, instances |-> s] :
        id \in ResourceIdentities, s \in SeqsUpTo(InstanceValues, MaxInstances)}
    \cup
    {[type |-> id[1], name |-> id[2], has_instances |-> FALSE, instances |-> <<>>] :
        id \in ResourceIdentities}
SnapshotDocs ==
    {[has_resources |-> FALSE, resources |-> <<>>]}
    \cup {[has_resources |-> TRUE, resources |-> s] :
            s \in SeqsUpTo(ResourceDescriptors, MaxResources)}

(***************************************************************************)
(* extract_state_resources                                                 *)
(***************************************************************************)
ResourceType(resource) == IF resource.type = NoKey THEN "unknown" ELSE resource.type
ResourceName(resource) == IF resource.name = NoKey THEN "unknown" ELSE resource.name

\* f"{resource_type}.{resource_name}"
BaseAddress(resource) == ResourceType(resource) \o "." \o ResourceName(resource)

AlwaysIndexed(address, i) == address \o "[" \o ToString(i) \o "]"

\* address if idx == 0 else f"{address}[{idx}]"
InstanceAddr(address, i) ==
    IF i = 0 THEN address ELSE address \o "[" \o ToString(i) \o "]"

\* resources[key] = value
Store(map, key, value) ==
    [a \in DOMAIN map \cup {key} |-> IF a = key THEN value ELSE map[a]]

\* the loop over enumerate(resource["instances"]), from position i on
RECURSIVE StoreInstances(_, _, _)
StoreInstances(map, resource, i) ==
    IF i >= Len(resource.instances) THEN map
    ELSE StoreInstances(
             Store(map, InstanceAddr(BaseAddress(resource), i),
                   [type |-> ResourceType(resource),
                    name |-> ResourceName(resource),
                    attributes |-> Get(resource.instances[i + 1], EmptyDict),
                    private |-> EmptyDict]),
             resource, i + 1)

\* the body of the loop over state["resources"]
StoreResource(map, resource) ==
    IF resource.has_instances
    THEN StoreInstances(map, resource, 0)
    ELSE Store(map, BaseAddress(resource),
               [type |-> ResourceType(resource),
                name |-> ResourceName(resource),
                attributes |-> EmptyDict,
                private |-> Absent])

RECURSIVE StoreAll(_, _)
StoreAll(descriptors, map) ==
    IF descriptors = <<>> THEN map
    ELSE StoreAll(Tail(descriptors), StoreResource(map, Head(descriptors)))

\* the whole function
ExtractStateResources(doc) ==
    IF doc.has_resources THEN StoreAll(doc.resources, NoResources) ELSE NoResources

\* the addresses under which the loop stores a descriptor
StoredAddresses(resource) ==
    IF resource.has_instances
    THEN {InstanceAddr(BaseAddress(resource), i) : i \in 0..(Len(resource.instances) - 1)}
    ELSE {BaseAddress(resource)}

(***************************************************************************)
(* SpecState: extract_state_resources descriptor by descriptor.            *)
(***************************************************************************)
InitState ==
    /\ snapshot \in SnapshotDocs
    /\ pc = "extract_state_resources"
    /\ failure = "none"
    /\ idx = 1
    /\ resources = NoResources
    /\ plan = NoPlan
    /\ changes = <<>>
    /\ creates = <<>> /\ updates = <<>> /\ deletes = <<>> /\ no_ops = <<>>
    /\ argv = {}
    /\ state = NoSnapshot
    /\ summary = NoSummary
    /\ output = <<>>
    /\ run = 1
    /\ first = NoFirst

ExtractStateStep ==
    /\ pc = "extract_state_resources"
    /\ snapshot.has_resources
    /\ idx <= Len(snapshot.resources)
    /\ resources' = StoreResource(resources, snapshot.resources[idx])
    /\ idx' = idx + 1
    /\ UNCHANGED <<pc, failure, plan, changes, creates, updates, deletes, no_ops,
                   snapshot, argv, state, summary, output, run, first>>

ExtractStateReturn ==
    /\ pc = "extract_state_resources"
    /\ \/ ~snapshot.has_resources
       \/ idx > Len(snapshot.resources)
    /\ pc' = "returned"
    /\ UNCHANGED <<failure, plan, idx, changes, creates, updates, deletes, no_ops,
                   snapshot, resources, argv, state, summary, output, run, first>>

NextState == ExtractStateStep \/ ExtractStateReturn

SpecState == InitState /\ [][NextState]_vars

(***************************************************************************)
(* Properties of extract_state_resources (SpecState).                      *)
(***************************************************************************)
Identified(resource) == resource.type # NoKey /\ resource.name # NoKey
Descriptor(k) == snapshot.resources[k]

\* the positions (descriptor, instance) of the document that resolve to address a
Resolving(a) ==
    {p \in (1..Len(snapshot.resources)) \X (0..MaxInstances) :
        /\ Descriptor(p[1]).has_instances
        /\ p[2] < Len(Descriptor(p[1]).instances)
        /\ Identified(Descriptor(p[1]))
        /\ a = (IF p[2] = 0
                THEN Descriptor(p[1]).type \o "." \o Descriptor(p[1]).name
                ELSE Descriptor(p[1]).type \o "." \o Descriptor(p[1]).name
                         \o "[" \o ToString(p[2]) \o "]")}

\* C5: extraction of a document in which two descriptors resolve to the
\* same address (same type, name and instance position) ends in an
\* AddressCollision failure, and the entry stored first is what the map holds.
C5_CollisionFails ==
    pc = "returned" =>
        \A a \in DOMAIN resources :
            Cardinality(Resolving(a)) > 1 =>
                /\ failure = "AddressCollision"
                /\ \E p \in Resolving(a) :
                      /\ \A q \in Resolving(a) : p[1] <= q[1]
                      /\ resources[a].attributes
                             = Get(Descriptor(p[1]).instances[p[2] + 1], EmptyDict)

\* C6: the step that handles a descriptor with type T, name N and n >= 1
\* instances stores exactly the n addresses T.N, T.N[1], ..., T.N[n-1], each
\* with the attributes of the instance at its position, and leaves every
\* other entry of the map as it was.
C6_InstanceAddresses ==
    [][(pc = "extract_state_resources" /\ idx' = idx + 1
        /\ Identified(Descriptor(idx)) /\ Descriptor(idx).has_instances
        /\ Len(Descriptor(idx).instances) >= 1)
       => LET d == Descriptor(idx)
              n == Len(d.instances)
              base == d.type \o "." \o d.name
              expected(i) == IF i = 0 THEN base
                             ELSE base \o "[" \o ToString(i) \o "]"
              written == {expected(i) : i \in 0..(n - 1)}
          IN  /\ Cardinality(written) = n
              /\ DOMAIN resources' = DOMAIN resources \cup written
              /\ \A i \in 0..(n - 1) :
                    resources'[expected(i)].attributes = Get(d.instances[i + 1], EmptyDict)
              /\ \A a \in DOMAIN resources \ written : resources'[a] = resources[a]
      ]_vars

\* A descriptor with two instances has been handled: its first instance is
\* stored under the bare address and its second under the address indexed 1.
C6_Witness ==
    /\ idx > 1
    /\ Descriptor(idx - 1).type = "aws_instance"
    /\ Descriptor(idx - 1).name = "web"
    /\ Descriptor(idx - 1).instances = <<SG1, Absent>>
    /\ "aws_instance.web" \in DOMAIN resources
    /\ "aws_instance.web[1]" \in DOMAIN resources
    /\ resources["aws_instance.web"].attributes = SG1
    /\ resources["aws_instance.web[1]"].attributes = EmptyDict

\* C7: a descriptor without its type or name is never stored under a
\* defaulted address that an identified descriptor of the same document
\* also has, unless extraction ends in a failure.
C7_NoPlaceholderCollision ==
    (pc = "returned" /\ failure = "none") =>
        \A i, j \in 1..Len(snapshot.resources) :
            (~Identified(Descriptor(i)) /\ Identified(Descriptor(j)))
                => StoredAddresses(Descriptor(i)) \cap StoredAddresses(Descriptor(j)) = {}

(***************************************************************************)
(* main, from the point where the two paths have been read from the        *)
(* command line.  A file is the outcome of opening and parsing it.         *)
(***************************************************************************)
Options == {"--verbose", "--creates", "--updates", "--deletes"}
FilterOptions == {"--creates", "--updates", "--deletes"}

StateDocs ==
    {[has_resources |-> TRUE, resources |-> <<>>],
     [has_resources |-> TRUE,
      resources |-> <<[type |-> "aws_instance", name |-> "web",
                       has_instances |-> TRUE, instances |-> <<SG1>>]>>]}
StateFiles ==
    {[status |-> "not found", doc |-> NoSnapshot],
     [status |-> "not json", doc |-> NoSnapshot]}
    \cup {[status |-> "ok", doc |-> d] : d \in StateDocs}
PlanFiles ==
    {[status |-> "not found", doc |-> NoPlan],
     [status |-> "not json", doc |-> NoPlan]}
    \cup {[status |-> "ok", doc |-> d] : d \in PlanDocs}

\* what one print_* call adds to the output
Header(section) ==
    [section |-> section, text |-> "header", address |-> "", action |-> ""]
Line(section, text, resource) ==
    [section |-> section, text |-> text, address |-> resource.address,
     action |-> resource.action]

PrintCreates(list) ==
    IF list = <<>> THEN <<>>
    ELSE <<Header("creates")>> \o [k \in 1..Len(list) |-> Line("creates", "resource", list[k])]

PrintUpdates(list) ==
    IF list = <<>> THEN <<>>
    ELSE <<Header("updates")>> \o [k \in 1..Len(list) |-> Line("updates", "resource", list[k])]

PrintDeletes(list) ==
    IF list = <<>> THEN <<>>
    ELSE <<Header("deletes")>> \o [k \in 1..Len(list) |-> Line("deletes", "resource", list[k])]

\* the lines 306-318: the sections main prints under the options
PrintFiltered(options, cs, us, ds) ==
    IF options \cap FilterOptions = {}
    THEN PrintCreates(cs) \o PrintUpdates(us) \o PrintDeletes(ds)
    ELSE (IF "--creates" \in options THEN PrintCreates(cs) ELSE <<>>)
         \o (IF "--updates" \in options THEN PrintUpdates(us) ELSE <<>>)
         \o (IF "--deletes" \in options THEN PrintDeletes(ds) ELSE <<>>)

\* the lines 321-338: the full configurations main prints under --verbose
PrintVerbose(options, cs, us, ds) ==
    IF "--verbose" \in options
    THEN <<Header("verbose")>>
         \o [k \in 1..Len(cs) |-> Line("verbose", "json after", cs[k])]
         \o [k \in 1..(2 * Len(us)) |->
                IF k % 2 = 1 THEN Line("verbose", "json before", us[(k + 1) \div 2])
                ELSE Line("verbose", "json after", us[k \div 2])]
         \o [k \in 1..Len(ds) |-> Line("verbose", "json before", ds[k])]
    ELSE <<>>

\* print_summary
SummaryOf(cs, us, ds, ns) ==
    [printed |-> TRUE, no_ops |-> Len(ns), creates |-> Len(cs), updates |-> Len(us),
     deletes |-> Len(ds), total |-> Len(cs) + Len(us) + Len(ds)]

ChangesKnownToState(st, p) ==
    SelectSeq(ExtractPlanChanges(p),
              LAMBDA c : c.address \in DOMAIN ExtractStateResources(st))

\* the lines 292-299: the records main computes with both documents loaded
MainChanges(st, p) == ExtractPlanChanges(p)

InitMain ==
    /\ argv \in SUBSET Options
    /\ pc = "load_state"
    /\ failure = "none"
    /\ state = NoSnapshot
    /\ plan = NoPlan
    /\ idx = 1
    /\ changes = <<>>
    /\ creates = <<>> /\ updates = <<>> /\ deletes = <<>> /\ no_ops = <<>>
    /\ snapshot = NoSnapshot
    /\ resources = NoResources
    /\ summary = NoSummary
    /\ output = <<>>
    /\ run = 1
    /\ first = NoFirst

LoadStateFile ==
    /\ pc = "load_state"
    /\ run = 1
    /\ \E f \in StateFiles :
          /\ f.status = "ok"
          /\ state' = f.doc
    /\ pc' = "load_plan"
    /\ UNCHANGED <<failure, plan, idx, changes, creates, updates, deletes, no_ops,
                   snapshot, resources, argv, summary, output, run, first>>

LoadStateFails ==
    /\ pc = "load_state"
    /\ \E f \in StateFiles : f.status # "ok"
    /\ failure' = "exit 1"
    /\ pc' = "exited"
    /\ UNCHANGED <<plan, idx, changes, creates, updates, deletes, no_ops, snapshot,
                   resources, argv, state, summary, output, run, first>>

LoadPlanFile ==
    /\ pc = "load_plan"
    /\ run = 1
    /\ \E f \in PlanFiles :
          /\ f.status = "ok"
          /\ plan' = f.doc
    /\ pc' = "analyze"
    /\ UNCHANGED <<failure, idx, changes, creates, updates, deletes, no_ops, snapshot,
                   resources, argv, state, summary, output, run, first>>

LoadPlanFails ==
    /\ pc = "load_plan"
    /\ run = 1
    /\ \E f \in PlanFiles : f.status # "ok"
    /\ failure' = "exit 1"
    /\ pc' = "exited"
    /\ UNCHANGED <<plan, idx, changes, creates, updates, deletes, no_ops, snapshot,
                   resources, argv, state, summary, output, run, first>>

\* the lines 299-300
Analyze ==
    /\ pc = "analyze"
    /\ changes' = MainChanges(state, plan)
    /\ LET lists == FilterChanges(changes')
       IN  /\ creates' = lists.creates
           /\ updates' = lists.updates
           /\ deletes' = lists.deletes
           /\ no_ops' = lists.no_ops
    /\ pc' = "print_summary"
    /\ UNCHANGED <<failure, plan, idx, snapshot, resources, argv, state, summary,
                   output, run, first>>

PrintSummary ==
    /\ pc = "print_summary"
    /\ summary' = SummaryOf(creates, updates, deletes, no_ops)
    /\ pc' = "print_filtered"
    /\ UNCHANGED <<failure, plan, idx, changes, creates, updates, deletes, no_ops,
                   snapshot, resources, argv, state, output, run, first>>

PrintFilteredResults ==
    /\ pc = "print_filtered"
    /\ output' = output \o PrintFiltered(argv, creates, updates, deletes)
    /\ pc' = "print_verbose"
    /\ UNCHANGED <<failure, plan, idx, changes, creates, updates, deletes, no_ops,
                   snapshot, resources, argv, state, summary, run, first>>

PrintVerboseResults ==
    /\ pc = "print_verbose"
    /\ output' = output \o PrintVerbose(argv, creates, updates, deletes)
    /\ pc' = "done"
    /\ UNCHANGED <<failure, plan, idx, changes, creates, updates, deletes, no_ops,
                   snapshot, resources, argv, state, summary, run, first>>

NextMain ==
    \/ LoadStateFile
    \/ LoadStateFails
    \/ LoadPlanFile
    \/ LoadPlanFails
    \/ Analyze
    \/ PrintSummary
    \/ PrintFilteredResults
    \/ PrintVerboseResults

SpecMain == InitMain /\ [][NextMain]_vars

(***************************************************************************)
(* Spec: main up to its summary (lines 283-303), run a second time on the  *)
(* same plan file with another state file.  The options are not read       *)
(* before line 306; the sections that follow the summary are SpecMain's.   *)
(***************************************************************************)
Init ==
    /\ InitMain
    /\ argv = {}

\* the second run starts once the first has printed its summary
RunAgain ==
    /\ pc = "print_filtered"
    /\ run = 1
    /\ first' = [plan |-> plan, state |-> state, changes |-> changes,
                 lists |-> [creates |-> creates, updates |-> updates,
                            deletes |-> deletes, no_ops |-> no_ops],
                 summary |-> summary]
    /\ run' = 2
    /\ pc' = "load_state"
    /\ state' = NoSnapshot
    /\ plan' = NoPlan
    /\ changes' = <<>>
    /\ creates' = <<>> /\ updates' = <<>> /\ deletes' = <<>> /\ no_ops' = <<>>
    /\ summary' = NoSummary
    /\ UNCHANGED <<failure, idx, snapshot, resources, argv, output>>

\* the second run loads a state document other than the first run's
LoadOtherStateFile ==
    /\ pc = "load_state"
    /\ run = 2
    /\ \E f \in StateFiles :
          /\ f.status = "ok"
          /\ f.doc # first.state
          /\ state' = f.doc
    /\ pc' = "load_plan"
    /\ UNCHANGED <<failure, plan, idx, changes, creates, updates, deletes, no_ops,
                   snapshot, resources, argv, summary, output, run, first>>

\* the second run reads the plan file the first run read
LoadSamePlanFile ==
    /\ pc = "load_plan"
    /\ run = 2
    /\ plan' = first.plan
    /\ pc' = "analyze"
    /\ UNCHANGED <<failure, idx, changes, creates, updates, deletes, no_ops, snapshot,
                   resources, argv, state, summary, output, run, first>>

Next ==
    \/ LoadStateFile
    \/ LoadStateFails
    \/ LoadPlanFile
    \/ LoadPlanFails
    \/ Analyze
    \/ PrintSummary
    \/ RunAgain
    \/ LoadOtherStateFile
    \/ LoadSamePlanFile

Spec == Init /\ [][Next]_vars

(***************************************************************************)
(* Properties of main (SpecMain, Spec).                                    *)
(***************************************************************************)
OptionOf(action) ==
    IF action = "create" THEN "--creates"
    ELSE IF action = "update" THEN "--updates"
    ELSE "--deletes"
Shown(action) ==
    \E k \in 1..Len(output) : output[k].text # "header" /\ output[k].action = action
SectionStart(section) ==
    CHOOSE k \in 1..Len(output) : output[k] = Header(section)

\* C9: under a filter option main shows resources of the requested kinds
\* only, in every section of its output and whatever the other options;
\* without one it shows the create, modify and delete sections in that order
\* (checked on the plans whose descriptors carry all their keys).
C9_OnlyRequestedKinds ==
    (pc = "done" /\ WellFormedPlan) =>
        /\ argv \cap FilterOptions # {} =>
              \A action \in {"create", "update", "delete"} :
                  Shown(action) => OptionOf(action) \in argv
        /\ argv \cap FilterOptions = {} =>
              /\ creates # <<>> => \E k \in 1..Len(output) : output[k] = Header("creates")
              /\ updates # <<>> => \E k \in 1..Len(output) : output[k] = Header("updates")
              /\ deletes # <<>> => \E k \in 1..Len(output) : output[k] = Header("deletes")
              /\ (creates # <<>> /\ updates # <<>>)
                    => SectionStart("creates") < SectionStart("updates")
              /\ (updates # <<>> /\ deletes # <<>>)
                    => SectionStart("updates") < SectionStart("deletes")
              /\ (creates # <<>> /\ deletes # <<>>)
                    => SectionStart("creates") < SectionStart("deletes")

====
